---- MODULE Spec2Model ----
(***************************************************************************)
(* Buffer objects (src/src/omap_dumb.c) and the DRI2 swap scheduler        *)
(* (src/src/omap_dri2.c) of the armsoc X driver, as a state machine.       *)
(*                                                                         *)
(* SpecBO drives the buffer-object API alone.  Spec drives the swap        *)
(* scheduler on one drawable and the DRI2 buffers created and destroyed    *)
(* for it.                                                                 *)
(***************************************************************************)
EXTENDS Integers, FiniteSets, Sequences, Bags, TLC

\* ------------------------------------------------------------------ bounds
\* scanout slots of the registry (the header that sets MAX_SCANOUTS is not
\* part of the sources; the loops of OMAPDRI2SwapComplete run over it)
MAX_SCANOUTS == 2
\* swap commands that can be in flight at the same time
MaxCmds == 2
\* outputs a page flip can be queued on
MaxOutputs == 2
\* buffer objects driven by SpecBO
NumBO == 1
\* omap_bo_reference calls per buffer object under SpecBO
MaxRefOps == 2
\* nesting depth of omap_bo_cpu_prep under SpecBO
MaxAcquire == 2
\* widths and heights of the buffer objects created under SpecPitch
MaxWidth == 100
MaxHeight == 2
\* flips in flight at the same time under SpecClose
MaxCloseFlips == 1
\* seconds and sequence numbers of a vblank reply under SpecMSC
MaxSec == 2
MaxSeq == 2
\* back buffers of the drawable whose pixmaps, and buffer objects, exist at
\* the same time
MaxBackBuffers == 1
\* OMAPDRI2CreateBuffer calls that fail at omap_bo_get_name
MaxNameFailures == 1
\* DRI2 buffers (OMAPDRI2BufferRec) that exist at the same time
MaxBuffers == 2

\* ------------------------------------------------------- program constants
\* enum omap_gem_op: the bit tested by omap_bo_cpu_prep
OMAP_GEM_READ == 1
OMAP_GEM_WRITE == 2
OMAP_SWAP_FAKE_FLIP == 1
OMAP_SWAP_FAIL == 2
\* static int limit = 5 of OMAPDRI2GetMSC
MSC_LOG_LIMIT == 5
\* #if !OMAP_USE_PAGE_FLIP_EVENTS: the build this model follows delivers
\* page flip events; a build without them completes every flip at once
OMAP_USE_PAGE_FLIP_EVENTS == TRUE

\* ------------------------------------------------------------- identities
\* buffer objects: the fallback scanout pOMAP->scanout, the back buffer's,
\* an off-screen drawable's own, and one per scanout slot
NullBO == "null"
FallbackBO == "fallback"
BackBO == "back"
OwnBO == "own"
SlotBO(i) == <<"slot1", "slot2", "slot3", "slot4">>[i]
Slots == 1 .. MAX_SCANOUTS
\* the buffer objects of the pixmaps createpix makes, the first is BackBO
BackBufBO(i) == <<"back", "back2", "back3", "back4">>[i]
BackBOs == {BackBufBO(i) : i \in 1 .. MaxBackBuffers}
AllBO == {FallbackBO, OwnBO} \cup BackBOs \cup {SlotBO(i) : i \in Slots}
\* the buffer objects SpecBO creates and drives
ApiBO == {<<BackBO, OwnBO, FallbackBO>>[i] : i \in 1 .. NumBO}
\* pixmaps: the drawable's own (front) and the ones createpix makes for
\* the back buffer, the first is PBack
NullPix == "null"
PFront == "pfront"
PBack == "pback"
BackPixmap(i) == <<"pback", "pback2", "pback3", "pback4">>[i]
BackPixmaps == {BackPixmap(i) : i \in 1 .. MaxBackBuffers}
Pixmaps == {PFront} \cup BackPixmaps
Cmds == 1 .. MaxCmds
Attachments == {"front", "back"}
DRAWABLE_WINDOW == "window"
DRAWABLE_PIXMAP == "pixmap"
DRI2_BLIT_COMPLETE == "blit"
DRI2_FLIP_COMPLETE == "flip"
\* widths and heights of drawables, the position of the drawable
Sizes == {1, 2}
\* the sizes a drawable is created with: that of the scanout buffer
\* objects, a wider and a higher one
DrawSizes == {<<1, 1>>, <<2, 1>>, <<1, 2>>}
DrawPos == <<1, 2>>
\* framebuffer ids a buffer object can carry (0: none registered)
FbOf(b) == CASE b = FallbackBO -> 11 [] b \in BackBOs -> 12 [] b = OwnBO -> 13 [] OTHER -> 14

VARIABLES
    bo,             \* struct omap_bo, by identity
    hist,           \* calls made on each buffer object under SpecBO
    pix,            \* pixmaps: refcnt and the bo of the driver private
    buf,            \* the OMAPDRI2BufferRec structs DRI2 holds, as a bag
    draw,           \* the drawable
    scanouts,       \* pOMAP->scanouts[]
    has_resized,    \* pOMAP->has_resized
    pending_flips,  \* pOMAP->pending_flips
    cmd,            \* struct _OMAPDRISwapCmd, by address
    screen,         \* the DRI2 screen: open, closing (in OMAPDRI2CloseScreen), closed
    vblank,         \* OMAPDRI2GetMSC's static limit, and the messages it logged
    leaked_bufs,    \* OMAPDRI2BufferRec allocations left behind by the return of line 180
    last            \* the operation that ran last and what it returned

vars == <<bo, hist, pix, buf, draw, scanouts, has_resized, pending_flips, cmd, screen, vblank, leaked_bufs, last>>

\* =================================================== buffer objects ======

\* memory never handed out by omap_bo_new, or handed back by free()
NoBO == [state |-> "none", refcnt |-> 0, acquired_exclusive |-> 0, acquire_cnt |-> 0, dirty |-> FALSE, fb_id |-> 0, width |-> 0, height |-> 0, pitch |-> 0, nRmFB |-> 0, nFree |-> 0]

\* line 121: pitch = ((((width * bpp + 7) / 8) + 63) / 64) * 64; the
\* uint32_t arithmetic does not wrap for the widths up to MaxWidth
MutPitchAlign32(width, bpp) == ((((width * bpp + 7) \div 8) + 31) \div 32) * 32
Pitch(width, bpp) == ((((width * bpp + 7) \div 8) + 63) \div 64) * 64

\* line 122: size = height * pitch
AllocSize(height, pitch) == height * pitch

\* lines 172-182: the struct omap_bo_new returns
SizedBO(w, h, bpp, fb) == [state |-> "live", refcnt |-> 1, acquired_exclusive |-> 0, acquire_cnt |-> 0, dirty |-> TRUE, fb_id |-> fb, width |-> w, height |-> h, pitch |-> Pitch(w, bpp), nRmFB |-> 0, nFree |-> 0]

\* omap_bo_new, success path: lines 172-182 (fb_id is the id drmModeAddFB gave)
NewBO(w, h, fb) == SizedBO(w, h, 32, fb)

\* omap_bo_new; allocOk: exynos_bo_create succeeds, fbOk: drmModeAddFB or
\* drmModeAddFB2 succeeds and gives the id fb.  The result holds the struct
\* returned (NoBO for NULL), the size asked of exynos_bo_create, and how
\* many times backing memory was created and destroyed.
MutNewKeepsMemory(w, h, bpp, fb, allocOk, fbOk) ==
    IF ~allocOk
    THEN [bo |-> NoBO, ret |-> 0, size |-> AllocSize(h, Pitch(w, bpp)), created |-> 0, destroyed |-> 0]
    ELSE IF ~fbOk
    THEN [bo |-> NoBO, ret |-> 0, size |-> AllocSize(h, Pitch(w, bpp)), created |-> 1, destroyed |-> 0]
    ELSE [bo |-> SizedBO(w, h, bpp, fb), ret |-> 1, size |-> AllocSize(h, Pitch(w, bpp)), created |-> 1, destroyed |-> 0]
omap_bo_new(w, h, bpp, fb, allocOk, fbOk) ==
    IF ~allocOk
    THEN [bo |-> NoBO, ret |-> 0, size |-> AllocSize(h, Pitch(w, bpp)), created |-> 0, destroyed |-> 0]
    ELSE IF ~fbOk
    THEN [bo |-> NoBO, ret |-> 0, size |-> AllocSize(h, Pitch(w, bpp)), created |-> 1, destroyed |-> 1]
    ELSE [bo |-> SizedBO(w, h, bpp, fb), ret |-> 1, size |-> AllocSize(h, Pitch(w, bpp)), created |-> 1, destroyed |-> 0]

\* omap_bo_del: drmModeRmFB, exynos_bo_destroy, free
omap_bo_del(b) == [b EXCEPT !.state = "freed", !.nRmFB = @ + 1, !.nFree = @ + 1]

\* omap_bo_unreference on one struct: --refcnt, omap_bo_del at 0
MutUnrefNeverDel(b) == [b EXCEPT !.refcnt = @ - 1]
UnrefBO(b) == IF b.refcnt - 1 = 0 THEN omap_bo_del([b EXCEPT !.refcnt = @ - 1]) ELSE [b EXCEPT !.refcnt = @ - 1]

\* omap_bo_reference on one struct
RefBO(b) == [b EXCEPT !.refcnt = @ + 1]

\* the two calls on the table of buffer objects; a NULL bo is ignored by
\* omap_bo_unreference
omap_bo_reference(bos, i) == [bos EXCEPT ![i] = RefBO(@)]
omap_bo_unreference(bos, i) == IF i = NullBO THEN bos ELSE [bos EXCEPT ![i] = UnrefBO(@)]

\* op & OMAP_GEM_WRITE
WriteBit(op) == IF (op \div OMAP_GEM_WRITE) % 2 = 1 THEN OMAP_GEM_WRITE ELSE 0

\* omap_bo_cpu_prep on one struct; ioctl_ret is what drmIoctl returns when it
\* is called.  The result is <<struct, return value, hardware call issued>>.
MutPrepCountsFailed(b, op, ioctl_ret) ==
    IF b.acquire_cnt # 0
    THEN IF WriteBit(op) # 0 /\ b.acquired_exclusive = 0
         THEN <<b, 1, FALSE>>
         ELSE <<[b EXCEPT !.acquire_cnt = @ + 1], 0, FALSE>>
    ELSE IF ioctl_ret # 0
         THEN <<[b EXCEPT !.acquire_cnt = @ + 1], ioctl_ret, TRUE>>
         ELSE <<[b EXCEPT !.acquired_exclusive = WriteBit(op), !.acquire_cnt = @ + 1, !.dirty = IF WriteBit(op) # 0 THEN TRUE ELSE @], 0, TRUE>>
omap_bo_cpu_prep(b, op, ioctl_ret) ==
    IF b.acquire_cnt # 0
    THEN IF WriteBit(op) # 0 /\ b.acquired_exclusive = 0
         THEN <<b, 1, FALSE>>
         ELSE <<[b EXCEPT !.acquire_cnt = @ + 1], 0, FALSE>>
    ELSE IF ioctl_ret # 0
         THEN <<b, ioctl_ret, TRUE>>
         ELSE <<[b EXCEPT !.acquired_exclusive = WriteBit(op), !.acquire_cnt = @ + 1, !.dirty = IF WriteBit(op) # 0 THEN TRUE ELSE @], 0, TRUE>>

\* omap_bo_cpu_fini on one struct
MutFiniAlwaysReleases(b, ioctl_ret) == <<[b EXCEPT !.acquire_cnt = @ - 1], ioctl_ret, TRUE>>
MutFiniRollsBack(b, ioctl_ret) ==
    IF b.acquire_cnt - 1 # 0
    THEN <<[b EXCEPT !.acquire_cnt = @ - 1], 0, FALSE>>
    ELSE <<IF ioctl_ret # 0 THEN b ELSE [b EXCEPT !.acquire_cnt = @ - 1], ioctl_ret, TRUE>>
omap_bo_cpu_fini(b, ioctl_ret) ==
    IF b.acquire_cnt - 1 # 0
    THEN <<[b EXCEPT !.acquire_cnt = @ - 1], 0, FALSE>>
    ELSE <<[b EXCEPT !.acquire_cnt = @ - 1], ioctl_ret, TRUE>>

omap_bo_get_dirty(b) == b.dirty
omap_bo_clear_dirty(b) == [b EXCEPT !.dirty = FALSE]
omap_bo_width(b) == b.width
omap_bo_height(b) == b.height
omap_bo_get_fb(b) == b.fb_id

\* =================================================== swap scheduler ======

\* a pixmap's memory before CreatePixmap hands it out
NoPix == [refcnt |-> 0, bo |-> NullBO, freed |-> FALSE]

\* lines 168-174: the OMAPDRI2BufferRec OMAPDRI2CreateBuffer fills in
NewBuffer(a, p) == [attachment |-> a, pPixmap |-> p, previous_canflip |-> -1]

\* a swap command's memory when it is not allocated
NoCmd == [state |-> "free", type |-> "none", pSrcPixmap |-> NullPix, pDstPixmap |-> NullPix, swapCount |-> 0, flags |-> 0, x |-> 0, y |-> 0, events |-> 0, refs |-> FALSE, srcBo |-> NullBO, dstBo |-> NullBO]

\* what the operation that ran last reports (src, dst: the pixmaps of the
\* buffers a swap was scheduled with)
NoMem == [size |-> 0, created |-> 0, destroyed |-> 0]
NoLast == [op |-> "none", src |-> NullPix, dst |-> NullPix, b |-> NullBO, gem |-> 0, args |-> <<>>, out |-> <<>>, mem |-> NoMem, fbs |-> <<>>, bumped |-> FALSE, c |-> 0, alloc |-> "none", pf |-> 0, ret |-> 0, hw |-> FALSE, path |-> "none", mode |-> "none", fin |-> <<>>, notes |-> <<>>]

\* cmd->flags & bit, for the two flag bits
HasFlag(flags, bit) == (flags \div bit) % 2 = 1
\* cmd->flags |= bit
SetFlag(flags, bit) == IF HasFlag(flags, bit) THEN flags ELSE flags + bit

\* drmmode_scanout_from_drawable: the slots bound to the drawable; the code
\* takes the first one and tests it against NULL
BoundSlots(sc, d) == {i \in Slots : sc[i].bo # NullBO /\ sc[i].bound}
drmmode_scanout_from_drawable(sc, d) == IF BoundSlots(sc, d) = {} THEN 0 ELSE CHOOSE i \in BoundSlots(sc, d) : \A j \in BoundSlots(sc, d) : i <= j

\* drmmode_scanout_set: the position of the slot that holds the bo
drmmode_scanout_set(sc, x, y, b) == [i \in Slots |-> IF sc[i].bo = b THEN [sc[i] EXCEPT !.x = x, !.y = y] ELSE sc[i]]

\* canflip(pDraw, back_bo)
MutCanflipIgnoresSize(d, sc, bos, back_bo) ==
    IF d.type # DRAWABLE_WINDOW THEN FALSE
    ELSE IF drmmode_scanout_from_drawable(sc, d) # 0 THEN TRUE
    ELSE FALSE
canflip(d, sc, bos, back_bo) ==
    IF d.type # DRAWABLE_WINDOW THEN FALSE
    ELSE IF back_bo # NullBO /\ (omap_bo_width(bos[back_bo]) # d.width \/ omap_bo_height(bos[back_bo]) # d.height) THEN FALSE
    ELSE IF drmmode_scanout_from_drawable(sc, d) # 0 THEN TRUE
    ELSE FALSE

\* pScreen->DestroyPixmap: drops one reference of the pixmap; the last one
\* frees it and the driver private drops its reference of the bo
DestroyPixmap(s, p) ==
    IF s.pix[p].refcnt - 1 > 0
    THEN [s EXCEPT !.pix[p].refcnt = @ - 1]
    ELSE [s EXCEPT !.pix[p] = [refcnt |-> 0, bo |-> NullBO, freed |-> TRUE], !.bo = omap_bo_unreference(s.bo, s.pix[p].bo)]

\* OMAPPixmapExchange: the two pixmaps trade their buffer objects
OMAPPixmapExchange(s, a, b) == [s EXCEPT !.pix[a].bo = s.pix[b].bo, !.pix[b].bo = s.pix[a].bo]

\* lines 351-353: for blits, invalidate the per-crtc scanouts
InvalidateScanouts(sc) == [i \in Slots |-> [sc[i] EXCEPT !.valid = FALSE]]

\* lines 359-364: validate the first slot that holds the bo
FirstSlotWith(sc, b) == IF {i \in Slots : sc[i].bo = b} = {} THEN 0 ELSE CHOOSE i \in Slots : sc[i].bo = b /\ \A j \in Slots : sc[j].bo = b => i <= j
MutValidateAll(sc, b) == [i \in Slots |-> [sc[i] EXCEPT !.valid = TRUE]]
ValidateScanout(sc, b) == IF FirstSlotWith(sc, b) = 0 THEN sc ELSE [sc EXCEPT ![FirstSlotWith(sc, b)].valid = TRUE]

\* lines 335-370 of OMAPDRI2SwapComplete, for a command that is not marked
\* failed and whose drawable dixLookupDrawable found
MutCompleteAlwaysExchange(s, c) ==
    LET k == s.cmd[c]
        exch == k.type # DRI2_BLIT_COMPLETE
        s1 == IF exch THEN OMAPPixmapExchange(s, k.pSrcPixmap, k.pDstPixmap) ELSE s
        s2 == [s1 EXCEPT !.notes = Append(@, [c |-> c, type |-> k.type])]
        dstbo == s2.pix[k.pDstPixmap].bo
    IN IF k.type = DRI2_BLIT_COMPLETE
       THEN [s2 EXCEPT !.scanouts = InvalidateScanouts(@)]
       ELSE LET sv == ValidateScanout(s2.scanouts, dstbo)
            IN [s2 EXCEPT !.scanouts = IF ~HasFlag(k.flags, OMAP_SWAP_FAKE_FLIP) THEN drmmode_scanout_set(sv, k.x, k.y, dstbo) ELSE sv]
CompleteFound(s, c) ==
    LET k == s.cmd[c]
        exch == k.type # DRI2_BLIT_COMPLETE /\ ~HasFlag(k.flags, OMAP_SWAP_FAKE_FLIP)
        s1 == IF exch THEN OMAPPixmapExchange(s, k.pSrcPixmap, k.pDstPixmap) ELSE s
        s2 == [s1 EXCEPT !.notes = Append(@, [c |-> c, type |-> k.type])]
        dstbo == s2.pix[k.pDstPixmap].bo
    IN IF k.type = DRI2_BLIT_COMPLETE
       THEN [s2 EXCEPT !.scanouts = InvalidateScanouts(@)]
       ELSE LET sv == ValidateScanout(s2.scanouts, dstbo)
            IN [s2 EXCEPT !.scanouts = IF ~HasFlag(k.flags, OMAP_SWAP_FAKE_FLIP) THEN drmmode_scanout_set(sv, k.x, k.y, dstbo) ELSE sv]

\* lines 372-378: drop the extra references, count the flip down, free
MutReleaseKeepsCount(s, c) ==
    LET k == s.cmd[c]
        s1 == DestroyPixmap(s, k.pSrcPixmap)
        s2 == DestroyPixmap(s1, k.pDstPixmap)
    IN [s2 EXCEPT !.cmd[c] = [NoCmd EXCEPT !.events = k.events]]
ReleaseCmd(s, c) ==
    LET k == s.cmd[c]
        s1 == DestroyPixmap(s, k.pSrcPixmap)
        s2 == DestroyPixmap(s1, k.pDstPixmap)
    IN [s2 EXCEPT !.pending_flips = @ - 1, !.cmd[c] = [NoCmd EXCEPT !.events = k.events]]

\* what a finalization reports: the command as it was, whether its drawable
\* was looked up and found, the bo of the destination pixmap as line 356
\* reads it, and the buffer objects of the two pixmaps before (s0) and
\* after (s) lines 335-370
FinRecord(s0, s, c, found) == [c |-> c, type |-> s.cmd[c].type, flags |-> s.cmd[c].flags, count |-> s.cmd[c].swapCount, events |-> s.cmd[c].events, found |-> found, dstbo |-> IF found THEN s.pix[s.cmd[c].pDstPixmap].bo ELSE NullBO, srcbo |-> IF found THEN s.pix[s.cmd[c].pSrcPixmap].bo ELSE NullBO, src0 |-> s0.pix[s.cmd[c].pSrcPixmap].bo, dst0 |-> s0.pix[s.cmd[c].pDstPixmap].bo, x |-> s.cmd[c].x, y |-> s.cmd[c].y]

\* lines 335-339: the command is not marked failed and dixLookupDrawable
\* finds the drawable by its id
MutLookupIgnoresExists(k, exists) == ~HasFlag(k.flags, OMAP_SWAP_FAIL)
MutLookupIgnoresFail(k, exists) == exists
LookupOk(k, exists) == ~HasFlag(k.flags, OMAP_SWAP_FAIL) /\ exists

\* the countdown of line 332: --cmd->swapCount > 0
MutCountdownGE(n) == n >= 0
MutPendingAboveOne(n) == n > 1
StillPending(n) == n > 0

\* OMAPDRI2SwapComplete(cmd); exists: the drawable is still there
OMAPDRI2SwapComplete(s, c, exists) ==
    LET s0 == [s EXCEPT !.cmd[c].swapCount = @ - 1]
        k == s0.cmd[c]
    IN IF StillPending(k.swapCount) THEN s0
       ELSE LET found == LookupOk(k, exists)
                s1 == IF found THEN CompleteFound(s0, c) ELSE s0
                s2 == [s1 EXCEPT !.fin = Append(@, FinRecord(s0, s1, c, found))]
            IN ReleaseCmd(s2, c)

\* the state the operators above work on, and its return to the variables
Cur == [bo |-> bo, pix |-> pix, scanouts |-> scanouts, pending_flips |-> pending_flips, cmd |-> cmd, fin |-> <<>>, notes |-> <<>>]
Commit(s) == bo' = s.bo /\ pix' = s.pix /\ scanouts' = s.scanouts /\ pending_flips' = s.pending_flips /\ cmd' = s.cmd

\* what drmmode_page_flip can return: the number of outputs a flip was queued
\* on, or -(k + 1) when it failed after queueing k
PageFlipResults == (0 .. MaxOutputs) \cup {-(k + 1) : k \in 0 .. (MaxOutputs - 1)}

\* calloc: the lowest command address that is free
FreeCmds == {c \in Cmds : cmd[c].state = "free" /\ cmd[c].events = 0}
NewCmd == CHOOSE c \in FreeCmds : \A d \in FreeCmds : c <= d

\* lines 428-449 without the mode switch: the destination pixmap takes the
\* bo of the drawable's scanout slot, or the fallback scanout bo
RebindDst(s, flipBranch, dstPix) ==
    IF flipBranch
    THEN LET old_bo == s.pix[dstPix].bo
             new_bo == s.scanouts[drmmode_scanout_from_drawable(s.scanouts, draw)].bo
         IN [s EXCEPT !.pix[dstPix].bo = new_bo, !.bo = omap_bo_unreference(omap_bo_reference(s.bo, new_bo), old_bo)]
    ELSE [s EXCEPT !.bo = omap_bo_unreference(omap_bo_reference(s.bo, FallbackBO), s.pix[dstPix].bo), !.pix[dstPix].bo = FallbackBO]

\* lines 409-419: the command as OMAPDRI2ScheduleSwap fills it in
FilledCmd(srcPix, dstPix) == [NoCmd EXCEPT !.state = "alloc", !.pSrcPixmap = srcPix, !.pDstPixmap = dstPix, !.x = draw.x, !.y = draw.y]

\* lines 451-456: the extra references and the in-flight counter
TakeRefs(s, c) == [s EXCEPT !.pix[s.cmd[c].pSrcPixmap].refcnt = @ + 1, !.pix[s.cmd[c].pDstPixmap].refcnt = @ + 1, !.pending_flips = @ + 1, !.cmd[c].refs = TRUE]

\* the buffer objects a command was issued with, kept for the properties
\* that speak of them (SpecIssued)
NoteIssued(s, c, track) == IF track THEN [s EXCEPT !.cmd[c].srcBo = s.pix[s.cmd[c].pSrcPixmap].bo, !.cmd[c].dstBo = s.pix[s.cmd[c].pDstPixmap].bo] ELSE s

\* lines 461-463: the serial number of the window pixmap is bumped
SerialBump(src, dst, new_canflip) ==
    \/ src.previous_canflip # -1 /\ src.previous_canflip # (IF new_canflip THEN 1 ELSE 0)
    \/ dst.previous_canflip # -1 /\ dst.previous_canflip # (IF new_canflip THEN 1 ELSE 0)
    \/ has_resized

\* lines 489-525: the page flip was issued and returned ret; without page
\* flip events swapCount is 0 and OMAPDRI2SwapComplete is called whatever
\* ret is (lines 503-511, 516-524)
MutPageFlipNeverFinalizes(s, c, ret) ==
    LET n == IF ~OMAP_USE_PAGE_FLIP_EVENTS THEN 0 ELSE IF ret < 0 THEN -(ret + 1) ELSE ret
        fl == IF ret < 0 THEN SetFlag(s.cmd[c].flags, OMAP_SWAP_FAIL) ELSE IF ret = 0 THEN SetFlag(s.cmd[c].flags, OMAP_SWAP_FAKE_FLIP) ELSE s.cmd[c].flags
    IN [s EXCEPT !.cmd[c].type = DRI2_FLIP_COMPLETE, !.cmd[c].flags = fl, !.cmd[c].swapCount = n, !.cmd[c].events = n]
AfterPageFlip(s, c, ret) ==
    LET n == IF ~OMAP_USE_PAGE_FLIP_EVENTS THEN 0 ELSE IF ret < 0 THEN -(ret + 1) ELSE ret
        fl == IF ret < 0 THEN SetFlag(s.cmd[c].flags, OMAP_SWAP_FAIL) ELSE IF ret = 0 THEN SetFlag(s.cmd[c].flags, OMAP_SWAP_FAKE_FLIP) ELSE s.cmd[c].flags
        s1 == [s EXCEPT !.cmd[c].type = DRI2_FLIP_COMPLETE, !.cmd[c].flags = fl, !.cmd[c].swapCount = n, !.cmd[c].events = n]
    IN IF s1.cmd[c].swapCount = 0 THEN OMAPDRI2SwapComplete(s1, c, TRUE) ELSE s1

\* lines 527-538: the fallback copy, finalized at once
MutBlitAsFlip(s, c) == OMAPDRI2SwapComplete([s EXCEPT !.cmd[c].type = DRI2_FLIP_COMPLETE], c, TRUE)
AfterBlit(s, c) == OMAPDRI2SwapComplete([s EXCEPT !.cmd[c].type = DRI2_BLIT_COMPLETE], c, TRUE)

\* line 483: if (src_fb_id && dst_fb_id && new_canflip && !(pOMAP->has_resized))
MutFlipIgnoresResize(src_fb_id, dst_fb_id, new_canflip, resized) == src_fb_id # 0 /\ dst_fb_id # 0 /\ new_canflip
ShouldFlip(src_fb_id, dst_fb_id, new_canflip, resized) == src_fb_id # 0 /\ dst_fb_id # 0 /\ new_canflip /\ ~resized

\* lines 437-440, 445-448: the mode switch failed and the call returns
\* FALSE; nothing points to the command any more
MutAbortAfterRefs(s, c) == [TakeRefs(s, c) EXCEPT !.cmd[c] = NoCmd]
AbortAtModeSwitch(s, c) == [s EXCEPT !.cmd[c] = NoCmd]

\* the buffers of an attachment that DRI2 holds for the drawable
BuffersOf(a) == {b \in BagToSet(buf) : b.attachment = a}

\* OMAPDRI2ScheduleSwap on the drawable, from a back buffer src to a front
\* buffer dst of it; modeOk: the mode switch succeeds, pfret: what
\* drmmode_page_flip returns (0 stands for it when the call does not reach
\* drmmode_page_flip)
OMAPDRI2ScheduleSwap(src, dst, modeOk, pfret, track) ==
    /\ screen = "open"
    /\ draw.exists /\ dst \in BuffersOf("front") /\ src \in BuffersOf("back")
    /\ FreeCmds # {}
    /\ LET c == NewCmd
           srcPix == src.pPixmap
           dstPix == dst.pPixmap
           new_canflip == canflip(draw, scanouts, bo, pix[srcPix].bo)
           flipBranch == new_canflip /\ ~has_resized
           s0 == [Cur EXCEPT !.cmd[c] = FilledCmd(srcPix, dstPix)]
           s1 == RebindDst(s0, flipBranch, dstPix)
           lost == AbortAtModeSwitch(s1, c)
           modeSet == IF flipBranch THEN "flip" ELSE "blit"
           s2 == NoteIssued(TakeRefs(s1, c), c, track)
           src_fb_id == omap_bo_get_fb(s2.bo[s2.pix[srcPix].bo])
           dst_fb_id == omap_bo_get_fb(s2.bo[s2.pix[dstPix].bo])
           doFlip == ShouldFlip(src_fb_id, dst_fb_id, new_canflip, has_resized)
           s3 == IF doFlip THEN AfterPageFlip(s2, c, pfret) ELSE AfterBlit(s2, c)
       IN IF ~modeOk
          THEN /\ pfret = 0
               /\ Commit(lost)
               /\ last' = [NoLast EXCEPT !.op = "ScheduleSwap", !.src = srcPix, !.dst = dstPix, !.c = c, !.alloc = "lost", !.ret = 0, !.path = "modefail"]
               /\ UNCHANGED <<hist, buf, draw, has_resized, screen, vblank, leaked_bufs>>
          ELSE /\ doFlip \/ pfret = 0
               /\ Commit(s3)
               /\ buf' = (buf (-) SetToBag({src, dst})) (+) SetToBag({[b EXCEPT !.previous_canflip = IF new_canflip THEN 1 ELSE 0] : b \in {src, dst}})
               /\ has_resized' = IF doFlip THEN has_resized ELSE FALSE
               /\ last' = [NoLast EXCEPT !.op = "ScheduleSwap", !.src = srcPix, !.dst = dstPix, !.c = c, !.alloc = IF s3.cmd[c].state = "alloc" THEN "inflight" ELSE "freed", !.pf = pfret, !.fbs = <<src_fb_id, dst_fb_id>>, !.bumped = SerialBump(src, dst, new_canflip), !.ret = IF doFlip /\ pfret < 0 THEN 0 ELSE 1, !.path = IF doFlip THEN "flip" ELSE "blit", !.mode = modeSet, !.fin = s3.fin, !.notes = s3.notes]
               /\ UNCHANGED <<hist, draw, screen, vblank, leaked_bufs>>

\* a page flip event of the hardware is read: the handler calls
\* OMAPDRI2SwapComplete on the command the event carries
HandleEvent(c) ==
    /\ cmd[c].state = "alloc" /\ cmd[c].events > 0
    /\ LET s == OMAPDRI2SwapComplete([Cur EXCEPT !.cmd[c].events = @ - 1], c, draw.exists)
       IN /\ Commit(s)
          /\ last' = [NoLast EXCEPT !.op = "FlipEvent", !.fin = s.fin, !.notes = s.notes]
    /\ UNCHANGED <<hist, buf, draw, has_resized, screen, vblank, leaked_bufs>>

\* the server's main loop reads the event
FlipEvent(c) == screen = "open" /\ HandleEvent(c)

\* OMAPDRI2DestroyBuffer, line 218: the buffer drops its reference of the
\* pixmap
OMAPDRI2DestroyBuffer(s, b) == DestroyPixmap(s, b.pPixmap)

\* DRI2 destroys one buffer of the drawable (it re-allocates the buffers
\* when the serial number or the size of the drawable has changed, and
\* drops the ones the client no longer asks for)
DestroyBuffer(b) ==
    /\ screen = "open"
    /\ BagIn(b, buf)
    /\ Commit(OMAPDRI2DestroyBuffer(Cur, b))
    /\ buf' = buf (-) SetToBag({b})
    /\ last' = NoLast
    /\ UNCHANGED <<hist, draw, has_resized, screen, vblank, leaked_bufs>>

\* CreatePixmap and the buffer object behind the new pixmap: the lowest
\* pixmap and buffer object that are not in use
FreeBackPixmaps == {i \in 1 .. MaxBackBuffers : pix[BackPixmap(i)].refcnt = 0}
FreeBackBOs == {i \in 1 .. MaxBackBuffers : bo[BackBufBO(i)].state # "live"}
NewBackPixmap == BackPixmap(CHOOSE i \in FreeBackPixmaps : \A j \in FreeBackPixmaps : i <= j)
NewBackBO == BackBufBO(CHOOSE i \in FreeBackBOs : \A j \in FreeBackBOs : i <= j)

\* lines 144-158: the pixmap of the new buffer; the front buffer takes a
\* reference of the drawable's pixmap, any other one gets a pixmap of the
\* drawable's width and height from createpix, whose buffer object carries
\* the framebuffer id fb (0: none, CreatePixmap registered none and lines
\* 188-194 did not or could not)
BufferPixmap(s, a, fb) ==
    IF a = "front"
    THEN [s EXCEPT !.pix[PFront].refcnt = @ + 1]
    ELSE [s EXCEPT !.pix[NewBackPixmap] = [refcnt |-> 1, bo |-> NewBackBO, freed |-> FALSE], !.bo[NewBackBO] = NewBO(draw.width, draw.height, fb)]

\* OMAPDRI2CreateBuffer(pDraw, attachment, format); nameOk: omap_bo_get_name
\* succeeds.  When it fails NULL is returned and nothing is cleaned up
\* (lines 177-181): the pixmap keeps the reference, or stays created, and
\* the OMAPDRI2BufferRec is left behind.  The code creates a buffer whatever
\* buffers the drawable already has; the only limits here are the bounds
\* MaxBuffers, MaxNameFailures and MaxBackBuffers (a free pixmap and a free
\* buffer object for the back buffer).
OMAPDRI2CreateBuffer(a, nameOk, fb) ==
    /\ screen = "open"
    /\ draw.exists
    /\ IF nameOk THEN BagCardinality(buf) < MaxBuffers ELSE leaked_bufs < MaxNameFailures
    /\ IF a = "front" THEN fb = 0 ELSE FreeBackPixmaps # {} /\ FreeBackBOs # {}
    /\ Commit(BufferPixmap(Cur, a, fb))
    /\ buf' = IF nameOk THEN buf (+) SetToBag({NewBuffer(a, IF a = "front" THEN PFront ELSE NewBackPixmap)}) ELSE buf
    /\ leaked_bufs' = IF nameOk THEN leaked_bufs ELSE leaked_bufs + 1
    /\ last' = NoLast
    /\ UNCHANGED <<hist, draw, has_resized, screen, vblank>>

\* the framebuffer ids the buffer object of a new back buffer can carry
BackFbs == {0, FbOf(BackBO)}

\* OMAPDRI2DestroyBuffer on every buffer of the bag B
RECURSIVE DestroyBuffers(_, _)
DestroyBuffers(s, B) ==
    IF BagToSet(B) = {} THEN s
    ELSE LET b == CHOOSE x \in BagToSet(B) : TRUE
         IN DestroyBuffers(OMAPDRI2DestroyBuffer(s, b), B (-) SetToBag({b}))

\* the server destroys the drawable and DRI2 destroys the buffers it has;
\* an off-screen drawable is a pixmap and gives up the reference its
\* resource held
DestroyDrawable ==
    /\ screen = "open"
    /\ draw.exists
    /\ draw' = [draw EXCEPT !.exists = FALSE]
    /\ LET s1 == DestroyBuffers(Cur, buf)
       IN Commit(IF draw.type = DRAWABLE_PIXMAP THEN DestroyPixmap(s1, PFront) ELSE s1)
    /\ buf' = EmptyBag
    /\ last' = NoLast
    /\ UNCHANGED <<hist, has_resized, screen, vblank, leaked_bufs>>

\* an output geometry change sets pOMAP->has_resized
OutputResized ==
    /\ screen = "open"
    /\ ~has_resized
    /\ has_resized' = TRUE
    /\ last' = NoLast
    /\ UNCHANGED <<bo, hist, pix, buf, draw, scanouts, pending_flips, cmd, screen, vblank, leaked_bufs>>

\* OMAPDRI2CloseScreen is entered
OMAPDRI2CloseScreen ==
    /\ screen = "open"
    /\ screen' = "closing"
    /\ last' = NoLast
    /\ UNCHANGED <<bo, hist, pix, buf, draw, scanouts, has_resized, pending_flips, cmd, vblank, leaked_bufs>>

\* line 627: while (pOMAP->pending_flips > 0)
MutWaitNever(n) == FALSE
KeepWaiting(n) == n > 0

\* lines 627-630: one turn of the loop; drmmode_wait_for_event reads one
\* page flip event
CloseScreenWait(c) == screen = "closing" /\ KeepWaiting(pending_flips) /\ HandleEvent(c)

\* line 631: the loop is left and DRI2CloseScreen tears the screen down
CloseScreenDone ==
    /\ screen = "closing" /\ ~KeepWaiting(pending_flips)
    /\ screen' = "closed"
    /\ UNCHANGED <<bo, hist, pix, buf, draw, scanouts, has_resized, pending_flips, cmd, vblank, leaked_bufs, last>>

\* the static limit of OMAPDRI2GetMSC before the first call; logged counts
\* the ERROR_MSG calls made
NoVblank == [limit |-> MSC_LOG_LIMIT, logged |-> 0]

\* the body of OMAPDRI2GetMSC: ret is what drmWaitVBlank returns, sec, usec
\* and seq its reply, ust and msc the caller's values (NoValue where the
\* pointer is NULL); the result holds the return value, the caller's
\* values after the call and the static state
NoValue == <<>>
MutMSCLogsAlways(v, ret, sec, usec, seq, ust, msc) ==
    IF ret # 0
    THEN [ret |-> FALSE, ust |-> ust, msc |-> msc, v |-> [limit |-> IF v.limit # 0 THEN v.limit - 1 ELSE 0, logged |-> v.logged + 1]]
    ELSE [ret |-> TRUE, ust |-> IF ust # NoValue THEN <<sec * 1000000 + usec>> ELSE ust, msc |-> IF msc # NoValue THEN <<seq>> ELSE msc, v |-> v]
GetMSC(v, ret, sec, usec, seq, ust, msc) ==
    IF ret # 0
    THEN [ret |-> FALSE, ust |-> ust, msc |-> msc, v |-> IF v.limit # 0 THEN [limit |-> v.limit - 1, logged |-> v.logged + 1] ELSE v]
    ELSE [ret |-> TRUE, ust |-> IF ust # NoValue THEN <<sec * 1000000 + usec>> ELSE ust, msc |-> IF msc # NoValue THEN <<seq>> ELSE msc, v |-> v]

\* the value a caller's variable holds before the call
Before == <<"before">>

\* OMAPDRI2GetMSC(pDraw, ust, msc); haveUst, haveMsc: the pointers are not
\* NULL
OMAPDRI2GetMSC(ret, sec, usec, seq, haveUst, haveMsc) ==
    /\ ret # 0 => (sec = 0 /\ usec = 0 /\ seq = 0)
    /\ LET r == GetMSC(vblank, ret, sec, usec, seq, IF haveUst THEN Before ELSE NoValue, IF haveMsc THEN Before ELSE NoValue)
       IN /\ vblank' = r.v
          /\ last' = [NoLast EXCEPT !.op = "GetMSC", !.args = <<ret, sec, usec, seq, haveUst, haveMsc>>, !.out = <<r.ust, r.msc>>, !.ret = IF r.ret THEN 1 ELSE 0, !.hw = vblank.limit > 0]
    /\ UNCHANGED <<bo, hist, pix, buf, draw, scanouts, has_resized, pending_flips, cmd, screen, leaked_bufs>>

\* the state after screen init and the creation of both DRI2 buffers of one
\* drawable: a window on the screen pixmap, or an off-screen pixmap; the
\* back buffer's pixmap is created with the drawable's width and height
\* (createpix, lines 107-114)
InitBO(type, backFb, w, h) == [b \in AllBO |->
    CASE b = FallbackBO -> [NewBO(1, 1, FbOf(b)) EXCEPT !.refcnt = IF type = DRAWABLE_WINDOW THEN 2 ELSE 1]
      [] b = BackBO -> NewBO(w, h, backFb)
      [] b \in BackBOs \ {BackBO} -> NoBO
      [] b = OwnBO -> IF type = DRAWABLE_PIXMAP THEN NewBO(1, 1, FbOf(b)) ELSE NoBO
      [] OTHER -> NewBO(1, 1, FbOf(b))]

Init ==
    \E type \in {DRAWABLE_WINDOW, DRAWABLE_PIXMAP}, bound \in BOOLEAN, backFb \in BackFbs, w \in Sizes, h \in Sizes :
        /\ <<w, h>> \in DrawSizes
        /\ bo = InitBO(type, backFb, w, h)
        /\ hist = [b \in AllBO |-> [nRef |-> 0, nUnref |-> 0]]
        /\ pix = [p \in Pixmaps |->
                CASE p = PFront -> [refcnt |-> 2, bo |-> IF type = DRAWABLE_WINDOW THEN FallbackBO ELSE OwnBO, freed |-> FALSE]
                  [] p = PBack -> [refcnt |-> 1, bo |-> BackBO, freed |-> FALSE]
                  [] OTHER -> NoPix]
        /\ buf = SetToBag({NewBuffer("front", PFront), NewBuffer("back", PBack)})
        /\ draw = [exists |-> TRUE, type |-> type, width |-> w, height |-> h, x |-> DrawPos[1], y |-> DrawPos[2]]
        /\ scanouts = [i \in Slots |-> [bo |-> SlotBO(i), valid |-> FALSE, x |-> 0, y |-> 0, bound |-> (i = 1 /\ bound)]]
        /\ has_resized = FALSE
        /\ pending_flips = 0
        /\ cmd = [c \in Cmds |-> NoCmd]
        /\ screen = "open"
        /\ vblank = NoVblank
        /\ leaked_bufs = 0
        /\ last = NoLast

Next ==
    \/ \E src \in BuffersOf("back"), dst \in BuffersOf("front"), modeOk \in BOOLEAN, pfret \in PageFlipResults : OMAPDRI2ScheduleSwap(src, dst, modeOk, pfret, FALSE)
    \/ \E c \in Cmds : FlipEvent(c)
    \/ DestroyDrawable
    \/ OutputResized
    \/ \E b \in BagToSet(buf) : DestroyBuffer(b)
    \/ \E a \in Attachments, nameOk \in BOOLEAN, fb \in BackFbs : OMAPDRI2CreateBuffer(a, nameOk, fb)

Spec == Init /\ [][Next]_vars

\* the same program, with the buffer objects of each command noted
NextIssued ==
    \/ \E src \in BuffersOf("back"), dst \in BuffersOf("front"), modeOk \in BOOLEAN, pfret \in PageFlipResults : OMAPDRI2ScheduleSwap(src, dst, modeOk, pfret, TRUE)
    \/ \E c \in Cmds : FlipEvent(c)
    \/ DestroyDrawable
    \/ OutputResized
    \/ \E b \in BagToSet(buf) : DestroyBuffer(b)
    \/ \E a \in Attachments, nameOk \in BOOLEAN, fb \in BackFbs : OMAPDRI2CreateBuffer(a, nameOk, fb)

SpecIssued == Init /\ [][NextIssued]_vars

\* the program with OMAPDRI2CloseScreen; the hardware delivers the event of
\* every flip it queued, and the loop of OMAPDRI2CloseScreen keeps running
NextClose ==
    \/ \E src \in BuffersOf("back"), dst \in BuffersOf("front"), modeOk \in BOOLEAN, pfret \in PageFlipResults : pending_flips < MaxCloseFlips /\ OMAPDRI2ScheduleSwap(src, dst, modeOk, pfret, FALSE)
    \/ \E c \in Cmds : FlipEvent(c)
    \/ DestroyDrawable
    \/ OutputResized
    \/ \E b \in BagToSet(buf) : DestroyBuffer(b)
    \/ \E a \in Attachments, nameOk \in BOOLEAN, fb \in BackFbs : OMAPDRI2CreateBuffer(a, nameOk, fb)
    \/ OMAPDRI2CloseScreen
    \/ \E c \in Cmds : CloseScreenWait(c)
    \/ CloseScreenDone

SpecClose == Init /\ [][NextClose]_vars /\ WF_vars(\E c \in Cmds : CloseScreenWait(c)) /\ WF_vars(CloseScreenDone)

\* ============================================ the buffer-object API =====

\* the values of enum omap_gem_op a caller can pass
GemOps == {OMAP_GEM_READ, OMAP_GEM_WRITE, OMAP_GEM_READ + OMAP_GEM_WRITE}
\* what drmIoctl returns
IoctlResults == {0, -1}

\* the swap scheduler's state while only the buffer-object API is driven
SwapIdle ==
    /\ pix = [p \in Pixmaps |-> NoPix]
    /\ buf = EmptyBag
    /\ draw = [exists |-> FALSE, type |-> DRAWABLE_WINDOW, width |-> 1, height |-> 1, x |-> 0, y |-> 0]
    /\ scanouts = [i \in Slots |-> [bo |-> NullBO, valid |-> FALSE, x |-> 0, y |-> 0, bound |-> FALSE]]
    /\ has_resized = FALSE
    /\ pending_flips = 0
    /\ cmd = [c \in Cmds |-> NoCmd]
    /\ screen = "open"
    /\ vblank = NoVblank
    /\ leaked_bufs = 0

SwapUnchanged == UNCHANGED <<pix, buf, draw, scanouts, has_resized, pending_flips, cmd, screen, vblank, leaked_bufs>>

InitBOApi ==
    /\ bo = [b \in AllBO |-> NoBO]
    /\ hist = [b \in AllBO |-> [nRef |-> 0, nUnref |-> 0]]
    /\ last = NoLast
    /\ SwapIdle

\* omap_bo_new(dev, w, h, depth, bpp, format); allocOk, fbOk:
\* exynos_bo_create and drmModeAddFB succeed (fbOk is not looked at when
\* the allocation fails)
BONewSized(b, w, h, bpp, allocOk, fbOk) ==
    /\ bo[b].state = "none"
    /\ allocOk \/ fbOk
    /\ LET r == omap_bo_new(w, h, bpp, FbOf(b), allocOk, fbOk)
       IN /\ bo' = [bo EXCEPT ![b] = r.bo]
          /\ last' = [NoLast EXCEPT !.op = "omap_bo_new", !.b = b, !.args = <<w, h, bpp>>, !.ret = r.ret, !.mem = [size |-> r.size, created |-> r.created, destroyed |-> r.destroyed]]
    /\ UNCHANGED hist
    /\ SwapUnchanged

\* omap_bo_new of one pixel at 32 bits per pixel
BONew(b, allocOk, fbOk) == BONewSized(b, 1, 1, 32, allocOk, fbOk)

\* omap_bo_reference by a caller that holds a reference
BOReference(b) ==
    /\ bo[b].state = "live" /\ bo[b].refcnt > 0
    /\ hist[b].nRef < MaxRefOps
    /\ bo' = omap_bo_reference(bo, b)
    /\ hist' = [hist EXCEPT ![b].nRef = @ + 1]
    /\ last' = [NoLast EXCEPT !.op = "omap_bo_reference"]
    /\ SwapUnchanged

\* omap_bo_unreference by a caller that holds a reference
BOUnreference(b) ==
    /\ bo[b].state = "live" /\ bo[b].refcnt > 0
    /\ bo' = omap_bo_unreference(bo, b)
    /\ hist' = [hist EXCEPT ![b].nUnref = @ + 1]
    /\ last' = [NoLast EXCEPT !.op = "omap_bo_unreference"]
    /\ SwapUnchanged

\* omap_bo_cpu_prep
BOCpuPrep(b, op, ioctl_ret) ==
    /\ bo[b].state = "live"
    /\ bo[b].acquire_cnt < MaxAcquire
    /\ bo[b].acquire_cnt # 0 => ioctl_ret = 0
    /\ LET r == omap_bo_cpu_prep(bo[b], op, ioctl_ret)
       IN /\ bo' = [bo EXCEPT ![b] = r[1]]
          /\ last' = [NoLast EXCEPT !.op = "omap_bo_cpu_prep", !.b = b, !.gem = op, !.ret = r[2], !.hw = r[3]]
    /\ UNCHANGED hist
    /\ SwapUnchanged

\* omap_bo_cpu_fini; the assertion of line 368 is the caller's obligation
BOCpuFini(b, ioctl_ret) ==
    /\ bo[b].state = "live"
    /\ bo[b].acquire_cnt > 0
    /\ bo[b].acquire_cnt # 1 => ioctl_ret = 0
    /\ LET r == omap_bo_cpu_fini(bo[b], ioctl_ret)
       IN /\ bo' = [bo EXCEPT ![b] = r[1]]
          /\ last' = [NoLast EXCEPT !.op = "omap_bo_cpu_fini", !.b = b, !.ret = r[2], !.hw = r[3]]
    /\ UNCHANGED hist
    /\ SwapUnchanged

\* omap_bo_clear_dirty
BOClearDirty(b) ==
    /\ bo[b].state = "live"
    /\ bo[b].dirty
    /\ bo' = [bo EXCEPT ![b] = omap_bo_clear_dirty(@)]
    /\ last' = [NoLast EXCEPT !.op = "omap_bo_clear_dirty"]
    /\ UNCHANGED hist
    /\ SwapUnchanged

NextBO ==
    \/ \E b \in ApiBO, allocOk \in BOOLEAN, fbOk \in BOOLEAN : BONew(b, allocOk, fbOk)
    \/ \E b \in ApiBO : BOReference(b)
    \/ \E b \in ApiBO : BOUnreference(b)
    \/ \E b \in ApiBO, op \in GemOps, r \in IoctlResults : BOCpuPrep(b, op, r)
    \/ \E b \in ApiBO, r \in IoctlResults : BOCpuFini(b, r)
    \/ \E b \in ApiBO : BOClearDirty(b)

SpecBO == InitBOApi /\ [][NextBO]_vars

\* omap_bo_new alone, over the sizes a caller can ask for
Widths == 1 .. MaxWidth
Heights == 1 .. MaxHeight
BitsPerPixel == {1, 8, 15, 16, 24, 32}

InitPitch ==
    /\ bo = [b \in AllBO |-> NoBO]
    /\ hist = [b \in AllBO |-> [nRef |-> 0, nUnref |-> 0]]
    /\ \E w \in Widths, h \in Heights, bpp \in BitsPerPixel : last = [NoLast EXCEPT !.op = "args", !.args = <<w, h, bpp>>]
    /\ SwapIdle

NextPitch == \E allocOk \in BOOLEAN, fbOk \in BOOLEAN : last.op = "args" /\ BONewSized(BackBO, last.args[1], last.args[2], last.args[3], allocOk, fbOk)

SpecPitch == InitPitch /\ [][NextPitch]_vars

\* OMAPDRI2GetMSC alone, over the replies of drmWaitVBlank
Microseconds == {0, 1, 999999}

NextMSC == \E ret \in IoctlResults, sec \in 0 .. MaxSec, usec \in Microseconds, seq \in 0 .. MaxSeq, haveUst \in BOOLEAN, haveMsc \in BOOLEAN : OMAPDRI2GetMSC(ret, sec, usec, seq, haveUst, haveMsc)

SpecMSC == InitBOApi /\ [][NextMSC]_vars

\* ================================================================ claims

\* C1: a buffer object's reference count is 1 + N - M after N
\* omap_bo_reference and M omap_bo_unreference calls; it is destroyed
\* (framebuffer removed, memory freed) exactly when the count is 0, and
\* that happens at most once.
C1_RefcountBalance ==
    \A b \in ApiBO : bo[b].state # "none" =>
        /\ bo[b].refcnt = 1 + hist[b].nRef - hist[b].nUnref
        /\ (bo[b].state = "freed") <=> (bo[b].refcnt = 0)
        /\ bo[b].nRmFB = (IF bo[b].refcnt = 0 THEN 1 ELSE 0)
        /\ bo[b].nFree = bo[b].nRmFB

\* a buffer object referenced twice and unreferenced three times is gone
C1_Witness == \E b \in ApiBO : bo[b].state = "freed" /\ hist[b].nRef = 2 /\ hist[b].nUnref = 3 /\ bo[b].nFree = 1

\* C2: no buffer object that a swap command was issued with, as the source
\* or the destination of the swap, is destroyed before the command is
\* finalized.
C2_IssuedBOsAlive ==
    \A c \in Cmds : (cmd[c].state = "alloc" /\ cmd[c].refs /\ cmd[c].srcBo # NullBO) =>
        /\ bo[cmd[c].srcBo].state # "freed"
        /\ bo[cmd[c].dstBo].state # "freed"

\* C3: a buffer object whose CPU-acquire depth is above 0 has not been
\* destroyed.
C3_NotDestroyedWhileAcquired == \A b \in ApiBO : bo[b].acquire_cnt > 0 => bo[b].state # "freed"

\* C4 as stated: whenever a swap command is finalized its countdown is
\* exactly 0, that is OMAPDRI2SwapComplete ran on it as many times as the
\* countdown's initial value.
C4_CountdownZeroAtFinalization == \A i \in DOMAIN last.fin : last.fin[i].count = 0

\* C4: a swap command handed to the flip or the copy path is finalized once,
\* by the last of max(1, N) invocations of OMAPDRI2SwapComplete, N being the
\* initial countdown: a command in flight has as many invocations to come
\* as its countdown (at least 1), a finalized one has none to come, the
\* countdown at finalization is 0 when completion events finalized it and
\* -1 when OMAPDRI2ScheduleSwap finalized it at once (N = 0), and a command
\* abandoned at the mode switch is never passed to OMAPDRI2SwapComplete.
C4_CountdownAtFinalization ==
    /\ \A c \in Cmds : cmd[c].state = "alloc" => cmd[c].swapCount = cmd[c].events /\ cmd[c].events >= 1
    /\ \A c \in Cmds : cmd[c].state = "free" => cmd[c].events = 0
    /\ Len(last.fin) <= 1
    /\ \A i \in DOMAIN last.fin :
        /\ last.fin[i].events = 0
        /\ last.fin[i].count = (IF last.op = "FlipEvent" THEN 0 ELSE -1)
    /\ last.path = "modefail" => last.fin = <<>>

\* the last completion event finalized a command while another one is
\* still counting down
C4_Witness ==
    /\ last.op = "FlipEvent" /\ Len(last.fin) = 1 /\ last.fin[1].count = 0
    /\ \E c \in Cmds : cmd[c].state = "alloc" /\ cmd[c].swapCount = MaxOutputs

\* C5: when OMAPDRI2ScheduleSwap returns, the command it allocated has been
\* destroyed or is in flight with completion events to come; none is lost.
C5_NoCommandLeaked == last.op = "ScheduleSwap" => last.alloc \in {"freed", "inflight"}

\* C6: a completion event for a command whose countdown is above 1 only
\* decrements the countdown (no notification, no finalization, scanouts,
\* pixmaps, buffer objects and the in-flight counter unchanged, command
\* still allocated); the event that finds the countdown at 1 finalizes the
\* command, delivers the notification if the drawable is found and the
\* command not failed, drops both pixmap references and the counter.
C6_OnlyLastCompletes ==
    [][\A c \in Cmds :
        (last'.op = "FlipEvent" /\ cmd[c].state = "alloc" /\ cmd'[c].events = cmd[c].events - 1) =>
            IF cmd[c].swapCount > 1
            THEN /\ cmd'[c] = [cmd[c] EXCEPT !.swapCount = @ - 1, !.events = @ - 1]
                 /\ last'.notes = <<>> /\ last'.fin = <<>>
                 /\ scanouts' = scanouts /\ pix' = pix /\ bo' = bo
                 /\ pending_flips' = pending_flips
            ELSE /\ cmd'[c].state = "free"
                 /\ Len(last'.fin) = 1 /\ last'.fin[1].c = c
                 /\ last'.notes = (IF last'.fin[1].found THEN <<[c |-> c, type |-> DRI2_FLIP_COMPLETE]>> ELSE <<>>)
                 /\ \A p \in {cmd[c].pSrcPixmap, cmd[c].pDstPixmap} : pix'[p].freed \/ pix'[p].refcnt = pix[p].refcnt - 1
                 /\ pending_flips' = pending_flips - 1
    ]_vars

\* the first of two completion events has come: nothing was finalized and
\* the command waits for one more
C6_Witness == last.op = "FlipEvent" /\ last.fin = <<>> /\ \E c \in Cmds : cmd[c].state = "alloc" /\ cmd[c].swapCount = 1 /\ cmd[c].flags = 0

\* C7: the final completion event of a command whose drawable was destroyed
\* in the meantime finds no drawable, delivers no notification, changes no
\* scanout slot and exchanges no buffer objects, and still drops both extra
\* pixmap references, decrements the in-flight counter and frees the
\* command.
C7_DrawableGone ==
    [][\A c \in Cmds :
        (last'.op = "FlipEvent" /\ cmd[c].state = "alloc" /\ cmd'[c].events = cmd[c].events - 1 /\ cmd[c].swapCount = 1 /\ ~draw.exists) =>
            /\ Len(last'.fin) = 1 /\ last'.fin[1].c = c /\ ~last'.fin[1].found
            /\ last'.notes = <<>>
            /\ scanouts' = scanouts
            /\ \A p \in Pixmaps : pix'[p].freed \/ pix'[p].bo = pix[p].bo
            /\ \A p \in {cmd[c].pSrcPixmap, cmd[c].pDstPixmap} : IF pix[p].refcnt = 1 THEN pix'[p].freed ELSE pix'[p].refcnt = pix[p].refcnt - 1
            /\ pending_flips' = pending_flips - 1
            /\ cmd'[c].state = "free"
    ]_vars

\* a flip that did not fail was finalized after its drawable had gone
C7_Witness ==
    /\ last.op = "FlipEvent" /\ ~draw.exists
    /\ Len(last.fin) = 1 /\ ~last.fin[1].found /\ ~HasFlag(last.fin[1].flags, OMAP_SWAP_FAIL)
    /\ pending_flips = 0

\* C8: when drmmode_page_flip returns -(k + 1), OMAPDRI2ScheduleSwap returns
\* FALSE and the command is marked failed; with k = 0 it is finalized in
\* the call, otherwise it stays in flight with countdown k and the k-th
\* completion event finalizes it.  Its finalization delivers no
\* notification, changes no scanout slot, exchanges no buffer objects,
\* drops both extra pixmap references, decrements the in-flight counter
\* and frees the command.
C8_FlipFailure ==
    [][/\ (last'.op = "ScheduleSwap" /\ last'.path = "flip" /\ last'.pf < 0) =>
            /\ last'.ret = 0
            /\ last'.notes = <<>>
            /\ scanouts' = scanouts
            /\ pix'[last'.src].bo = pix[last'.src].bo
            /\ IF last'.pf = -1
               THEN /\ last'.alloc = "freed" /\ cmd'[last'.c].state = "free"
                    /\ Len(last'.fin) = 1 /\ last'.fin[1].c = last'.c
                    /\ HasFlag(last'.fin[1].flags, OMAP_SWAP_FAIL) /\ ~last'.fin[1].found
                    /\ \A p \in Pixmaps : pix'[p].refcnt = pix[p].refcnt
                    /\ pending_flips' = pending_flips
               ELSE /\ last'.alloc = "inflight" /\ cmd'[last'.c].state = "alloc"
                    /\ last'.fin = <<>>
                    /\ HasFlag(cmd'[last'.c].flags, OMAP_SWAP_FAIL)
                    /\ cmd'[last'.c].swapCount = -(last'.pf + 1)
                    /\ cmd'[last'.c].events = -(last'.pf + 1)
                    /\ \A p \in Pixmaps : pix'[p].refcnt = pix[p].refcnt + (IF p \in {last'.dst, last'.src} THEN 1 ELSE 0)
                    /\ pending_flips' = pending_flips + 1
       /\ \A c \in Cmds :
            (last'.op = "FlipEvent" /\ cmd[c].state = "alloc" /\ cmd'[c].events = cmd[c].events - 1 /\ cmd[c].swapCount = 1 /\ HasFlag(cmd[c].flags, OMAP_SWAP_FAIL)) =>
                /\ Len(last'.fin) = 1 /\ last'.fin[1].c = c /\ ~last'.fin[1].found
                /\ last'.notes = <<>>
                /\ scanouts' = scanouts
                /\ \A p \in Pixmaps : pix'[p].freed \/ pix'[p].bo = pix[p].bo
                /\ \A p \in {cmd[c].pSrcPixmap, cmd[c].pDstPixmap} : IF pix[p].refcnt = 1 THEN pix'[p].freed ELSE pix'[p].refcnt = pix[p].refcnt - 1
                /\ pending_flips' = pending_flips - 1
                /\ cmd'[c].state = "free"
    ]_vars

\* a flip that failed after one output was queued has been finalized by
\* that output's completion event, the drawable still being there
C8_Witness ==
    /\ last.op = "FlipEvent" /\ draw.exists
    /\ Len(last.fin) = 1 /\ HasFlag(last.fin[1].flags, OMAP_SWAP_FAIL) /\ last.fin[1].count = 0

\* C9 as stated: OMAPDRI2ScheduleSwap on a drawable that canflip rejects
\* returns TRUE with one blit notification delivered, the command freed and
\* the in-flight counter as before the call.
C9_BlitSynchronous ==
    [][(last'.op = "ScheduleSwap" /\ ~canflip(draw, scanouts, bo, pix[last'.src].bo)) =>
            /\ last'.ret = 1
            /\ last'.notes = <<[c |-> last'.c, type |-> DRI2_BLIT_COMPLETE]>>
            /\ last'.alloc = "freed" /\ cmd'[last'.c].state = "free"
            /\ pending_flips' = pending_flips
    ]_vars

\* C9: OMAPDRI2ScheduleSwap on a drawable that canflip rejects, when the
\* switch to blit mode succeeds, returns TRUE with one blit notification
\* delivered, the command finalized and freed in the call and the
\* in-flight counter as before the call; when the switch to blit mode
\* fails it returns FALSE and delivers no notification.
C9_BlitSynchronousIfModeSet ==
    [][(last'.op = "ScheduleSwap" /\ ~canflip(draw, scanouts, bo, pix[last'.src].bo)) =>
            IF last'.path # "modefail"
            THEN /\ last'.ret = 1
                 /\ last'.path = "blit" /\ last'.mode = "blit"
                 /\ last'.notes = <<[c |-> last'.c, type |-> DRI2_BLIT_COMPLETE]>>
                 /\ Len(last'.fin) = 1 /\ last'.fin[1].c = last'.c
                 /\ last'.alloc = "freed" /\ cmd'[last'.c].state = "free"
                 /\ pending_flips' = pending_flips
            ELSE /\ last'.ret = 0
                 /\ last'.notes = <<>>
    ]_vars

\* a swap on an off-screen pixmap was copied and notified in the call
C9_Witness ==
    /\ last.op = "ScheduleSwap" /\ last.path = "blit" /\ draw.type = DRAWABLE_PIXMAP
    /\ last.ret = 1 /\ Len(last.notes) = 1 /\ last.notes[1].type = DRI2_BLIT_COMPLETE
    /\ last.alloc = "freed"

\* C10: after the finalization of a blit command no scanout slot is valid;
\* the finalization of a flip command turns valid at most one slot, one
\* that holds the buffer object of the destination pixmap, and turns no
\* slot invalid.
C10_ScanoutValidity ==
    [][\A i \in DOMAIN last'.fin :
        IF last'.fin[i].type = DRI2_BLIT_COMPLETE
        THEN \A s \in Slots : ~scanouts'[s].valid
        ELSE /\ Cardinality({s \in Slots : scanouts'[s].valid /\ ~scanouts[s].valid}) <= 1
             /\ \A s \in Slots : (scanouts'[s].valid /\ ~scanouts[s].valid) => (last'.fin[i].found /\ scanouts'[s].bo = last'.fin[i].dstbo)
             /\ \A s \in Slots : scanouts[s].valid => scanouts'[s].valid
    ]_vars

\* a flip was finalized and the slot of its destination is valid
C10_Witness ==
    /\ Len(last.fin) = 1 /\ last.fin[1].type = DRI2_FLIP_COMPLETE /\ last.fin[1].found
    /\ \E s \in Slots : scanouts[s].valid /\ scanouts[s].bo = last.fin[1].dstbo
    /\ \E s \in Slots : ~scanouts[s].valid

\* C11: the screen is torn down only with the in-flight counter at 0 and no
\* completion event of an allocated command still to come, so none is
\* handled after teardown; and once OMAPDRI2CloseScreen is entered, with
\* the events of the outstanding flips arriving, the teardown is reached.
C11_CloseScreenWaits ==
    /\ [](screen = "closed" => (pending_flips = 0 /\ \A c \in Cmds : cmd[c].state = "free" /\ cmd[c].events = 0))
    /\ (screen = "closing" ~> screen = "closed")

\* the screen was closed after the loop had waited for a flip to complete
C11_Witness == screen = "closed" /\ last.op = "FlipEvent" /\ Len(last.fin) = 1 /\ pending_flips = 0

\* C12: an omap_bo_cpu_prep that fails leaves the buffer object as it was;
\* a write acquire of a buffer object held non-exclusively fails with 1
\* and issues no hardware call, and a first acquire issues the hardware
\* call and returns 0 or the error of the ioctl.
C12_FailedPrepChangesNothing ==
    [][\A b \in ApiBO :
        (last'.op = "omap_bo_cpu_prep" /\ last'.b = b) =>
            /\ last'.ret # 0 => bo'[b] = bo[b]
            /\ (bo[b].acquire_cnt > 0 /\ bo[b].acquired_exclusive = 0 /\ HasFlag(last'.gem, OMAP_GEM_WRITE)) => (last'.ret = 1 /\ ~last'.hw)
            /\ bo[b].acquire_cnt = 0 => (last'.hw /\ last'.ret \in IoctlResults)
            /\ last'.ret = 0 => bo'[b].acquire_cnt = bo[b].acquire_cnt + 1
    ]_vars

\* a write acquire was refused on a buffer object held for reading
C12_Witness == last.op = "omap_bo_cpu_prep" /\ last.ret = 1 /\ HasFlag(last.gem, OMAP_GEM_WRITE) /\ bo[last.b].acquire_cnt = 1 /\ bo[last.b].acquired_exclusive = 0

\* C13: omap_bo_cpu_prep issues the hardware acquire exactly when the depth
\* is 0 before the call, and omap_bo_cpu_fini issues the hardware release
\* exactly when the depth is 0 after it; each successful call moves the
\* depth by one.
C13_OneHardwareCallPerNest ==
    [][\A b \in ApiBO :
        /\ (last'.op = "omap_bo_cpu_prep" /\ last'.b = b) =>
            /\ last'.hw <=> (bo[b].acquire_cnt = 0)
            /\ bo'[b].acquire_cnt = bo[b].acquire_cnt + (IF last'.ret = 0 THEN 1 ELSE 0)
        /\ (last'.op = "omap_bo_cpu_fini" /\ last'.b = b) =>
            /\ last'.hw <=> (bo'[b].acquire_cnt = 0)
            /\ bo'[b].acquire_cnt = bo[b].acquire_cnt - 1
    ]_vars

\* an inner release: the depth went from 2 to 1 without a hardware call
C13_Witness == last.op = "omap_bo_cpu_fini" /\ ~last.hw /\ bo[last.b].acquire_cnt = 1 /\ bo[last.b].state = "live"

\* C14: after an omap_bo_cpu_prep with the write bit that returned 0, the
\* buffer object is dirty.
C14_DirtyAfterWriteAcquire == (last.op = "omap_bo_cpu_prep" /\ last.ret = 0 /\ HasFlag(last.gem, OMAP_GEM_WRITE)) => omap_bo_get_dirty(bo[last.b])

\* C15: omap_bo_new that fails returns no buffer object and has destroyed
\* the backing memory it created; omap_bo_new that succeeds returns a
\* buffer object with a framebuffer, reference count 1, dirty, depth 0, not
\* held exclusively, its memory created once and not destroyed.
C15_CreateAllOrNothing ==
    last.op = "omap_bo_new" =>
        IF last.ret = 1
        THEN /\ bo[last.b].state = "live"
             /\ omap_bo_get_fb(bo[last.b]) # 0
             /\ bo[last.b].refcnt = 1
             /\ omap_bo_get_dirty(bo[last.b])
             /\ bo[last.b].acquire_cnt = 0
             /\ bo[last.b].acquired_exclusive = 0
             /\ last.mem.created = 1 /\ last.mem.destroyed = 0
        ELSE /\ bo[last.b].state = "none"
             /\ last.mem.created <= 1
             /\ last.mem.destroyed = last.mem.created

\* the framebuffer could not be registered: nothing returned, the memory
\* created and destroyed
C15_Witness == last.op = "omap_bo_new" /\ last.ret = 0 /\ last.mem.created = 1 /\ last.mem.destroyed = 1 /\ bo[last.b].state = "none"

\* C18: the pitch of a created buffer object is ceil(width * bpp / 8) rounded
\* up to a multiple of 64: a multiple of 64, at least ceil(width * bpp / 8)
\* and less than that plus 64; the size asked of the allocator is height *
\* pitch; width 64 at 32 bpp gives 256, width 100 at 32 bpp gives 448.
C18_PitchAligned ==
    last.op = "omap_bo_new" =>
        LET w == last.args[1]
            h == last.args[2]
            bpp == last.args[3]
            bytes == IF (w * bpp) % 8 = 0 THEN (w * bpp) \div 8 ELSE (w * bpp) \div 8 + 1
            pitch == last.mem.size \div h
        IN /\ last.mem.size = h * pitch
           /\ pitch % 64 = 0
           /\ pitch >= bytes /\ pitch < bytes + 64
           /\ last.ret = 1 => bo[last.b].pitch = pitch
           /\ (w = 64 /\ bpp = 32) => pitch = 256
           /\ (w = 100 /\ bpp = 32) => pitch = 448

\* a buffer object 100 pixels wide at 32 bits per pixel has pitch 448
C18_Witness == last.op = "omap_bo_new" /\ last.ret = 1 /\ last.args[1] = 100 /\ last.args[3] = 32 /\ bo[last.b].pitch = 448

\* C16: canflip(drawable, bo) is true exactly when the drawable is a window,
\* the bo is absent or has the drawable's width and height, and a scanout
\* slot is bound to the drawable.
C16_CanflipIff ==
    \A b \in AllBO \cup {NullBO} : (b = NullBO \/ bo[b].state = "live") =>
        (canflip(draw, scanouts, bo, b) <=>
            /\ draw.type = DRAWABLE_WINDOW
            /\ b = NullBO \/ (bo[b].width = draw.width /\ bo[b].height = draw.height)
            /\ \E i \in Slots : scanouts[i].bound)

\* a window with a scanout slot bound to it, whose back buffer holds a
\* buffer object of another size, was swapped by a copy
C16_Witness ==
    /\ last.op = "ScheduleSwap" /\ last.path = "blit" /\ last.mode = "blit"
    /\ draw.type = DRAWABLE_WINDOW /\ draw.exists
    /\ \E i \in Slots : scanouts[i].bound
    /\ bo[pix[PBack].bo].state = "live" /\ omap_bo_width(bo[pix[PBack].bo]) # draw.width
    /\ ~canflip(draw, scanouts, bo, pix[PBack].bo)

\* C17: when drmWaitVBlank fails, OMAPDRI2GetMSC returns FALSE and leaves the
\* caller's ust and msc as they were, and over all calls the failure is
\* logged at most 5 times; when it succeeds, OMAPDRI2GetMSC returns TRUE with
\* msc the reply's sequence number and ust its seconds * 1000000 + its
\* microseconds, each written where the caller passed a pointer.
C17_GetMSC ==
    /\ vblank.logged <= 5
    /\ vblank.logged = MSC_LOG_LIMIT - vblank.limit
    /\ last.op = "GetMSC" =>
        IF last.args[1] # 0
        THEN /\ last.ret = 0
             /\ last.out[1] = (IF last.args[5] THEN Before ELSE NoValue)
             /\ last.out[2] = (IF last.args[6] THEN Before ELSE NoValue)
        ELSE /\ last.ret = 1
             /\ last.out[1] = (IF last.args[5] THEN <<last.args[2] * 1000000 + last.args[3]>> ELSE NoValue)
             /\ last.out[2] = (IF last.args[6] THEN <<last.args[4]>> ELSE NoValue)

\* a sixth failure: nothing left to log, nothing written
C17_Witness == last.op = "GetMSC" /\ last.ret = 0 /\ ~last.hw /\ vblank.limit = 0 /\ vblank.logged = 5 /\ last.out = <<Before, Before>>

\* C19: an OMAPDRI2ScheduleSwap whose mode switch fails returns FALSE having
\* taken no extra pixmap reference, with the in-flight counter, the cached
\* previous_canflip of both buffers and has_resized unchanged, no serial
\* number bumped, no page flip or copy issued, nothing finalized and no
\* notification delivered.
C19_ModeSwitchFailureAborts ==
    [][(last'.op = "ScheduleSwap" /\ last'.path = "modefail") =>
        /\ last'.ret = 0
        /\ \A p \in Pixmaps : pix'[p].refcnt = pix[p].refcnt
        /\ pending_flips' = pending_flips
        /\ buf' = buf
        /\ has_resized' = has_resized
        /\ ~last'.bumped
        /\ last'.fbs = <<>> /\ last'.pf = 0
        /\ last'.fin = <<>> /\ last'.notes = <<>>
        /\ scanouts' = scanouts
    ]_vars

\* the switch to blit mode failed while a geometry change was pending and
\* a flip was in flight
C19_Witness == last.op = "ScheduleSwap" /\ last.path = "modefail" /\ last.ret = 0 /\ has_resized /\ pending_flips = 1

\* C20: an OMAPDRI2ScheduleSwap whose mode switch succeeded issues the page
\* flip exactly when the source and the destination buffer object both
\* have a framebuffer id, canflip holds for the source and has_resized is
\* not set; otherwise it copies, delivers the blit notification and
\* leaves has_resized cleared.
C20_FlipIffEligible ==
    [][(last'.op = "ScheduleSwap" /\ last'.path # "modefail") =>
        LET src_bo == pix[last'.src].bo
            cf == canflip(draw, scanouts, bo, src_bo)
            dst_bo == IF cf /\ ~has_resized THEN scanouts[drmmode_scanout_from_drawable(scanouts, draw)].bo ELSE FallbackBO
        IN /\ last'.fbs = <<omap_bo_get_fb(bo[src_bo]), omap_bo_get_fb(bo[dst_bo])>>
           /\ last'.path \in {"flip", "blit"}
           /\ (last'.path = "flip") <=> (last'.fbs[1] # 0 /\ last'.fbs[2] # 0 /\ cf /\ ~has_resized)
           /\ has_resized => last'.path = "blit"
           /\ last'.path = "blit" => (~has_resized' /\ last'.notes = <<[c |-> last'.c, type |-> DRI2_BLIT_COMPLETE]>>)
           /\ last'.path = "flip" => (has_resized' = has_resized /\ \A i \in DOMAIN last'.notes : last'.notes[i].type = DRI2_FLIP_COMPLETE)
    ]_vars

\* a window that canflip accepts, both buffer objects with a framebuffer,
\* was swapped by a copy: a geometry change was pending
C20_Witness ==
    /\ last.op = "ScheduleSwap" /\ last.path = "blit" /\ ~has_resized
    /\ last.fbs[1] # 0 /\ last.fbs[2] # 0
    /\ draw.type = DRAWABLE_WINDOW /\ draw.width = 1 /\ draw.height = 1 /\ \E i \in Slots : scanouts[i].bound

\* C21 as stated: the finalization of a flip command that is not marked
\* failed and whose drawable is found exchanges the buffer objects of the
\* source and the destination pixmap.
C21_FlipAlwaysExchanges ==
    \A i \in DOMAIN last.fin :
        (last.fin[i].type = DRI2_FLIP_COMPLETE /\ last.fin[i].found) =>
            (last.fin[i].srcbo = last.fin[i].dst0 /\ last.fin[i].dstbo = last.fin[i].src0)

\* C21: the finalization of a flip command that is not marked failed and
\* whose drawable is found exchanges the buffer objects of the source and
\* the destination pixmap when the flip is not a fake flip and leaves them
\* in place when it is; it turns valid the first scanout slot that holds
\* the destination pixmap's buffer object (as it is after that step) and
\* changes the validity of no other slot; when the flip is not a fake
\* flip the slots that hold that buffer object take the command's
\* position, and every other position stays, as all do for a fake flip.
C21_FlipFinalization ==
    [][\A i \in DOMAIN last'.fin :
        (last'.fin[i].type = DRI2_FLIP_COMPLETE /\ last'.fin[i].found) =>
            LET f == last'.fin[i]
                fake == HasFlag(f.flags, OMAP_SWAP_FAKE_FLIP)
            IN /\ IF fake
                  THEN f.srcbo = f.src0 /\ f.dstbo = f.dst0
                  ELSE f.srcbo = f.dst0 /\ f.dstbo = f.src0
               /\ \A s \in Slots :
                    scanouts'[s].valid = (scanouts[s].valid \/ (scanouts[s].bo = f.dstbo /\ \A j \in Slots : scanouts[j].bo = f.dstbo => s <= j))
               /\ \A s \in Slots :
                    /\ scanouts'[s].bo = scanouts[s].bo
                    /\ <<scanouts'[s].x, scanouts'[s].y>> = (IF ~fake /\ scanouts[s].bo = f.dstbo THEN <<f.x, f.y>> ELSE <<scanouts[s].x, scanouts[s].y>>)
    ]_vars

\* a fake flip was finalized: the two pixmaps, which held different buffer
\* objects, kept them, the slot of the destination is valid and its
\* position is not the drawable's
C21_Witness ==
    /\ last.op = "ScheduleSwap" /\ Len(last.fin) = 1
    /\ last.fin[1].type = DRI2_FLIP_COMPLETE /\ last.fin[1].found /\ HasFlag(last.fin[1].flags, OMAP_SWAP_FAKE_FLIP)
    /\ last.fin[1].src0 # last.fin[1].dst0 /\ last.fin[1].srcbo = last.fin[1].src0
    /\ \E s \in Slots : scanouts[s].bo = last.fin[1].dstbo /\ scanouts[s].valid /\ <<scanouts[s].x, scanouts[s].y>> # DrawPos

\* C22: when drmmode_page_flip returns 0, OMAPDRI2ScheduleSwap marks the
\* command a fake flip and finalizes it before it returns TRUE: one flip
\* notification delivered, both extra pixmap references and the in-flight
\* counter back at their values before the call, the command freed with
\* no completion event to come; when it returns N > 0 the command stays
\* in flight with countdown N, holding its references and its count of
\* the in-flight counter, and nothing is finalized or notified in the call.
C22_FakeFlipFinalizedInCall ==
    [][(last'.op = "ScheduleSwap" /\ last'.path = "flip" /\ last'.pf >= 0) =>
        IF last'.pf = 0
        THEN /\ last'.ret = 1
             /\ Len(last'.fin) = 1 /\ last'.fin[1].c = last'.c
             /\ last'.fin[1].type = DRI2_FLIP_COMPLETE
             /\ HasFlag(last'.fin[1].flags, OMAP_SWAP_FAKE_FLIP) /\ ~HasFlag(last'.fin[1].flags, OMAP_SWAP_FAIL)
             /\ last'.notes = <<[c |-> last'.c, type |-> DRI2_FLIP_COMPLETE]>>
             /\ \A p \in Pixmaps : pix'[p].refcnt = pix[p].refcnt
             /\ pending_flips' = pending_flips
             /\ last'.alloc = "freed" /\ cmd'[last'.c].state = "free" /\ cmd'[last'.c].events = 0
        ELSE /\ last'.ret = 1
             /\ last'.fin = <<>> /\ last'.notes = <<>>
             /\ last'.alloc = "inflight" /\ cmd'[last'.c].state = "alloc"
             /\ cmd'[last'.c].type = DRI2_FLIP_COMPLETE /\ cmd'[last'.c].flags = 0
             /\ cmd'[last'.c].swapCount = last'.pf /\ cmd'[last'.c].events = last'.pf
             /\ \A p \in Pixmaps : pix'[p].refcnt = pix[p].refcnt + (IF p \in {last'.dst, last'.src} THEN 1 ELSE 0)
             /\ pending_flips' = pending_flips + 1
             /\ scanouts' = scanouts
    ]_vars

\* a fake flip was finalized in the call while an earlier flip is still
\* waiting for its completion events
C22_Witness ==
    /\ last.op = "ScheduleSwap" /\ last.path = "flip" /\ last.pf = 0 /\ last.ret = 1
    /\ Len(last.fin) = 1 /\ HasFlag(last.fin[1].flags, OMAP_SWAP_FAKE_FLIP)
    /\ pending_flips = 1 /\ \E c \in Cmds : cmd[c].state = "alloc" /\ cmd[c].swapCount = MaxOutputs

\* C23: in every reachable state the in-flight counter pending_flips is not
\* negative and is the number of swap commands that took their extra
\* pixmap references (lines 454-456) and are not finalized yet; a command
\* that is not allocated holds no extra reference.
C23_PendingFlipsCountsCommands ==
    /\ pending_flips >= 0
    /\ pending_flips = Cardinality({c \in Cmds : cmd[c].state = "alloc" /\ cmd[c].refs})
    /\ \A c \in Cmds : cmd[c].state = "free" => ~cmd[c].refs

\* of two flips in flight one was finalized by its last completion event:
\* the counter is 1 and one command still holds its references
C23_Witness ==
    /\ last.op = "FlipEvent" /\ Len(last.fin) = 1
    /\ pending_flips = 1
    /\ \E c \in Cmds : cmd[c].state = "alloc" /\ cmd[c].refs /\ cmd[c].swapCount >= 1

\* C24: the mode OMAPDRI2ScheduleSwap programs agrees with the path it
\* takes: when it copies, it switched the output to blit mode and rebound
\* the destination pixmap to the fallback scanout buffer object in the
\* same call; when it issues a page flip, it switched the output to flip
\* mode in the same call.
C24_ModeAgreesWithPath ==
    last.op = "ScheduleSwap" =>
        /\ last.path = "blit" => (last.mode = "blit" /\ Len(last.fin) = 1 /\ last.fin[1].dst0 = FallbackBO)
        /\ last.path = "flip" => last.mode = "flip"

\* C25: omap_bo_cpu_fini at depth 1 issues the hardware release, returns
\* what the ioctl returned and leaves the depth at 0 and every other field
\* as it was, also when the ioctl failed; omap_bo_cpu_prep at depth 0
\* issues a hardware acquire and, when it succeeds, the hold is exclusive
\* exactly when the call has the write bit, whatever the previous hold
\* was.
C25_FailedReleaseNotRolledBack ==
    [][\A b \in ApiBO :
        /\ (last'.op = "omap_bo_cpu_fini" /\ last'.b = b /\ bo[b].acquire_cnt = 1) =>
            /\ last'.hw /\ last'.ret \in IoctlResults
            /\ bo'[b] = [bo[b] EXCEPT !.acquire_cnt = 0]
        /\ (last'.op = "omap_bo_cpu_prep" /\ last'.b = b /\ bo[b].acquire_cnt = 0) =>
            /\ last'.hw /\ last'.ret \in IoctlResults
            /\ IF last'.ret = 0
               THEN /\ bo'[b].acquire_cnt = 1
                    /\ bo'[b].acquired_exclusive = (IF HasFlag(last'.gem, OMAP_GEM_WRITE) THEN OMAP_GEM_WRITE ELSE 0)
               ELSE bo'[b] = bo[b]
    ]_vars

\* the release of an exclusive hold failed: the error was returned and the
\* depth is 0, with the exclusive mark of that hold still in the struct
C25_Witness ==
    /\ last.op = "omap_bo_cpu_fini" /\ last.ret = -1 /\ last.hw
    /\ bo[last.b].state = "live" /\ bo[last.b].acquire_cnt = 0 /\ bo[last.b].acquired_exclusive = OMAP_GEM_WRITE

====
